---- MODULE Spec2Model ----
(***************************************************************************)
(* Model of the JSON path extraction and unquote functions of              *)
(* src/util/codec/mysql/json/functions.rs and of the SimulateTransport     *)
(* filter chain of tests/raftstore/transport_simulate.rs.                  *)
(*                                                                         *)
(* Strings are sequences of Unicode scalar values (naturals), so that the  *)
(* ordering of keys and the decoding of escapes are computed, not assumed. *)
(***************************************************************************)
EXTENDS Integers, Sequences, FiniteSets, TLC

VARIABLES
    j,               \* extract: the subject value (self)
    path_expr_list,  \* extract: the path expressions, each a sequence of legs
    inserts,         \* the insertion order the subject Object was built from
    result,          \* extract: the returned Option<Json>, or a panic
    pc,              \* which entry point ran / where the running call stands
    input,           \* unquote_string: the text s
    unquoted,        \* unquote_string: its Result<String>
    stack,           \* extract_json: the frames of the calls in progress
    returned,        \* extract_json: the Vec<Json> the outermost call returned
    filters,         \* SimulateTransport.filters
    msg,             \* send: the message being sent (0: none in progress)
    idx,             \* send: position in the before / after loop
    discard,         \* send: the local discard
    res,             \* send: the local res
    before_log,      \* send: filters whose before hook ran for msg, in call order
    after_log,       \* send: filters whose after hook ran for msg, in call order
    hit,             \* the messages for which some before hook returned true
    trans_log,       \* messages the underlying transport's send received
    trans_res,       \* send: what the underlying send returned for msg
    sent             \* number of send calls started

vars == <<j, path_expr_list, inserts, result, pc, input, unquoted, stack, returned,
          filters, msg, idx, discard, res, before_log, after_log, hit, trans_log,
          trans_res, sent>>

extractVars == <<j, path_expr_list, inserts, result>>
unquoteVars == <<input, unquoted>>
callVars == <<stack, returned>>
sendVars == <<filters, msg, idx, discard, res, before_log, after_log, hit, trans_log,
              trans_res, sent>>

-----------------------------------------------------------------------------
(* Bounds of the checked instances *)

MaxNodes == 3
MaxLegs == 2
MaxExprs == 2
MaxStrLen == 3
MaxEscLen == 6
MaxFilters == 2
MaxMsgs == 2

-----------------------------------------------------------------------------
(* Sequence helpers *)

Range(s) == {s[i] : i \in DOMAIN s}

RECURSIVE Flatten(_)
Flatten(ss) == IF ss = <<>> THEN <<>> ELSE Head(ss) \o Flatten(Tail(ss))

RECURSIVE SeqsUpTo(_, _)
SeqsUpTo(S, n) ==
    IF n = 0 THEN {<<>>}
    ELSE LET shorter == SeqsUpTo(S, n - 1)
         IN  shorter \cup {Append(s, x) : s \in {t \in shorter : Len(t) = n - 1}, x \in S}

(* Ord for String: lexicographic on the scalar values *)
RECURSIVE StrLess(_, _)
StrLess(a, b) ==
    IF b = <<>> THEN FALSE
    ELSE IF a = <<>> THEN TRUE
    ELSE IF Head(a) # Head(b) THEN Head(a) < Head(b)
    ELSE StrLess(Tail(a), Tail(b))

-----------------------------------------------------------------------------
(* Json values *)

JNone == [kind |-> "None"]
JBoolean(b) == [kind |-> "Boolean", b |-> b]
JI64(i) == [kind |-> "I64", i |-> i]
JArray(elems) == [kind |-> "Array", elems |-> elems]
\* an Object holds a BTreeMap: its entries <<key, value>> in ascending key order
JObject(map) == [kind |-> "Object", map |-> map]

KeyAB == <<97, 98>>
KeyB == <<98>>
\* "ab" < "b" as strings, though "b" is the shorter
Keys == {KeyAB, KeyB}

\* BTreeMap::insert: replaces the value of an equal key, else inserts in key order
RECURSIVE BTreeInsert(_, _, _)
BTreeInsert(map, k, v) ==
    IF map = <<>> THEN << <<k, v>> >>
    ELSE IF Head(map)[1] = k THEN << <<k, v>> >> \o Tail(map)
    ELSE IF StrLess(k, Head(map)[1]) THEN << <<k, v>> >> \o map
    ELSE <<Head(map)>> \o BTreeInsert(Tail(map), k, v)

RECURSIVE BTreeFromInserts(_)
BTreeFromInserts(kvs) ==
    IF kvs = <<>> THEN <<>>
    ELSE LET n == Len(kvs)
         IN  BTreeInsert(BTreeFromInserts(SubSeq(kvs, 1, n - 1)), kvs[n][1], kvs[n][2])

\* BTreeMap::keys: the keys in the map's iteration order
MapKeys(map) == [i \in DOMAIN map |-> map[i][1]]
MapContainsKey(map, k) == \E i \in DOMAIN map : map[i][1] = k
\* map[&key]: panics when the key is absent
MapIndex(map, k) ==
    IF MapContainsKey(map, k)
    THEN [panic |-> FALSE, v |-> map[CHOOSE i \in DOMAIN map : map[i][1] = k][2]]
    ELSE [panic |-> TRUE, v |-> JNone]

Scalars == {JBoolean(TRUE), JI64(2017)}

\* the strictly ascending key sequences of length n: the key sets a map can hold
SortedKeySeqs(n) ==
    {ks \in [1..n -> Keys] : \A a, b \in 1..n : a < b => StrLess(ks[a], ks[b])}

\* Json trees by node count; Forest(m): the sequences of trees with m nodes in all
RECURSIVE Tree(_), Forest(_)
Tree(n) ==
    IF n = 1 THEN Scalars \cup {JArray(<<>>), JObject(<<>>)}
    ELSE {JArray(f) : f \in Forest(n - 1)}
         \cup UNION {{JObject([i \in DOMAIN f |-> <<ks[i], f[i]>>]) :
                          ks \in SortedKeySeqs(Len(f))} : f \in Forest(n - 1)}
Forest(m) ==
    IF m = 0 THEN {<<>>}
    ELSE UNION {{<<t>> \o f : t \in Tree(i), f \in Forest(m - i)} : i \in 1..m}

\* the values of at most n nodes
ValuesUpTo(n) == UNION {Tree(k) : k \in 1..n}

\* the children of a value: Array elements in stored order, Object values in the
\* map's order
Children(v) ==
    IF v.kind = "Array" THEN v.elems
    ELSE IF v.kind = "Object" THEN [i \in DOMAIN v.map |-> v.map[i][2]]
    ELSE <<>>

\* v and every descendant of v
RECURSIVE SubValues(_)
SubValues(v) == {v} \cup UNION {SubValues(Children(v)[i]) : i \in DOMAIN Children(v)}

-----------------------------------------------------------------------------
(* Path expressions *)

PATH_EXPR_ASTERISK == <<42>>
PATH_EXPR_ARRAY_INDEX_ASTERISK == -1

KeyLeg(k) == [leg |-> "Key", key |-> k]
IndexLeg(i) == [leg |-> "Index", i |-> i]
DoubleAsterisk == [leg |-> "DoubleAsterisk"]

LiteralLegs == {KeyLeg(KeyAB), KeyLeg(KeyB), IndexLeg(0), IndexLeg(1), IndexLeg(-2)}
Legs == LiteralLegs
        \cup {KeyLeg(PATH_EXPR_ASTERISK), IndexLeg(PATH_EXPR_ARRAY_INDEX_ASTERISK),
              DoubleAsterisk}

\* the path expressions of at most n legs
PathExprsUpTo(n) == SeqsUpTo(Legs, n)

\* PathExpression::pop_one_leg: the first leg and the expression of the others
pop_one_leg(legs) == <<Head(legs), Tail(legs)>>

-----------------------------------------------------------------------------
(* usize: 64 bits, as four 16-bit limbs, most significant first *)

Limb == 2 ^ 16

\* `i as usize` for an i32: sign extension to 64 bits
AsUsize(i) ==
    LET ext == IF i < 0 THEN Limb - 1 ELSE 0
    IN  <<ext, ext, (i \div Limb) % Limb, i % Limb>>

\* Vec::len as a usize
LenUsize(array) == <<0, 0, (Len(array) \div Limb) % Limb, Len(array) % Limb>>

RECURSIVE UsizeLess(_, _)
UsizeLess(a, b) ==
    IF a = <<>> THEN FALSE
    ELSE IF Head(a) # Head(b) THEN Head(a) < Head(b)
    ELSE UsizeLess(Tail(a), Tail(b))

\* array[u]: panics when u is out of bounds
VecIndex(array, u) ==
    IF UsizeLess(u, LenUsize(array))
    THEN [panic |-> FALSE, v |-> array[u[3] * Limb + u[4] + 1]]
    ELSE [panic |-> TRUE, v |-> JNone]

-----------------------------------------------------------------------------
(* extract_json *)

\* a wrap that allocates the Vec and pushes nothing
wrap_to_array_empty(v) == <<>>

wrap_to_array(v) == <<v>>

\* keys.sort(): insertion into the sorted prefix, ascending by Ord for String
RECURSIVE SortInsert(_, _)
SortInsert(sorted, k) ==
    IF sorted = <<>> THEN <<k>>
    ELSE IF StrLess(k, Head(sorted)) THEN <<k>> \o sorted
    ELSE <<Head(sorted)>> \o SortInsert(Tail(sorted), k)

RECURSIVE SortKeys(_)
SortKeys(keys) ==
    IF keys = <<>> THEN <<>>
    ELSE SortInsert(SortKeys(SubSeq(keys, 1, Len(keys) - 1)), keys[Len(keys)])

\* a sort with the comparison reversed
get_sorted_keys_desc(m) ==
    LET asc == SortKeys(MapKeys(m))
    IN  [n \in DOMAIN asc |-> asc[Len(asc) + 1 - n]]

get_sorted_keys(m) == SortKeys(MapKeys(m))

Call(v, legs) == [j |-> v, legs |-> legs]
NoPanic(calls) == [panic |-> FALSE, calls |-> calls]
Panicked == [panic |-> TRUE, calls |-> <<>>]

\* the bounds test without the cast: i < array.len() on signed integers
IndexCalls_signed(v, i, sub_path_expr) ==
    LET array == IF v.kind = "Array" THEN v.elems ELSE wrap_to_array(v)
    IN  IF i = PATH_EXPR_ARRAY_INDEX_ASTERISK
        THEN NoPanic([n \in DOMAIN array |-> Call(array[n], sub_path_expr)])
        ELSE IF i < Len(array)
        THEN LET child == VecIndex(array, AsUsize(i))
             IN  IF child.panic THEN Panicked
                 ELSE NoPanic(<<Call(child.v, sub_path_expr)>>)
        ELSE NoPanic(<<>>)

\* the recursive calls the Index arm makes, in order
IndexCalls(v, i, sub_path_expr) ==
    LET array == IF v.kind = "Array" THEN v.elems ELSE wrap_to_array(v)
    IN  IF i = PATH_EXPR_ARRAY_INDEX_ASTERISK
        THEN NoPanic([n \in DOMAIN array |-> Call(array[n], sub_path_expr)])
        ELSE IF UsizeLess(AsUsize(i), LenUsize(array))
        THEN LET child == VecIndex(array, AsUsize(i))
             IN  IF child.panic THEN Panicked
                 ELSE NoPanic(<<Call(child.v, sub_path_expr)>>)
        ELSE NoPanic(<<>>)

\* the recursive calls the Key arm makes, in order
KeyCalls(v, key, sub_path_expr) ==
    IF v.kind = "Object"
    THEN IF key = PATH_EXPR_ASTERISK
         THEN LET sorted_keys == get_sorted_keys(v.map)
                  vals == [n \in DOMAIN sorted_keys |-> MapIndex(v.map, sorted_keys[n])]
              IN  IF \E n \in DOMAIN vals : vals[n].panic THEN Panicked
                  ELSE NoPanic([n \in DOMAIN vals |-> Call(vals[n].v, sub_path_expr)])
         ELSE IF MapContainsKey(v.map, key)
         THEN LET child == MapIndex(v.map, key)
              IN  IF child.panic THEN Panicked
                  ELSE NoPanic(<<Call(child.v, sub_path_expr)>>)
         ELSE NoPanic(<<>>)
    ELSE NoPanic(<<>>)

\* a descent that consumes the leg on the children too: one level only
DoubleAsteriskCalls_shallow(v, path_expr, sub_path_expr) ==
    LET here == <<Call(v, sub_path_expr)>>
        kids == Children(v)
    IN  NoPanic(here \o [n \in DOMAIN kids |-> Call(kids[n], sub_path_expr)])

\* a descent that passes the value itself, not the child, to the recursive call
DoubleAsteriskCalls_self(v, path_expr, sub_path_expr) ==
    LET here == <<Call(v, sub_path_expr)>>
        kids == Children(v)
    IN  NoPanic(here \o [n \in DOMAIN kids |-> Call(v, path_expr)])

\* the recursive calls the DoubleAsterisk arm makes, in order
DoubleAsteriskCalls(v, path_expr, sub_path_expr) ==
    LET here == <<Call(v, sub_path_expr)>>
    IN  IF v.kind = "Array"
        THEN NoPanic(here \o [n \in DOMAIN v.elems |-> Call(v.elems[n], path_expr)])
        ELSE IF v.kind = "Object"
        THEN LET sorted_keys == get_sorted_keys(v.map)
                 vals == [n \in DOMAIN sorted_keys |-> MapIndex(v.map, sorted_keys[n])]
             IN  IF \E n \in DOMAIN vals : vals[n].panic THEN Panicked
                 ELSE NoPanic(here \o [n \in DOMAIN vals |-> Call(vals[n].v, path_expr)])
        ELSE NoPanic(here)

\* the match on current_leg: the recursive calls of one extract_json call whose
\* path expression has a leg, in the order their results are appended to ret
LegCalls(v, path_expr) ==
    LET popped == pop_one_leg(path_expr)
        current_leg == popped[1]
        sub_path_expr == popped[2]
    IN  IF current_leg.leg = "Index" THEN IndexCalls(v, current_leg.i, sub_path_expr)
        ELSE IF current_leg.leg = "Key" THEN KeyCalls(v, current_leg.key, sub_path_expr)
        ELSE DoubleAsteriskCalls(v, path_expr, sub_path_expr)

\* a Vec<Json>, or the panic that unwound the call
Ret(vals) == [panic |-> FALSE, ret |-> vals]
RetPanic == [panic |-> TRUE, ret |-> <<>>]

RECURSIVE extract_json(_, _), AppendCalls(_)
extract_json(v, path_expr) ==
    IF path_expr = <<>> THEN Ret(<<v>>)
    ELSE LET c == LegCalls(v, path_expr)
         IN  IF c.panic THEN RetPanic ELSE AppendCalls(c.calls)
\* ret.append(&mut extract_json(..)) for each call in turn
AppendCalls(calls) ==
    IF calls = <<>> THEN Ret(<<>>)
    ELSE LET first == extract_json(Head(calls).j, Head(calls).legs)
             rest == AppendCalls(Tail(calls))
         IN  IF first.panic \/ rest.panic THEN RetPanic
             ELSE Ret(first.ret \o rest.ret)

-----------------------------------------------------------------------------
(* Json::extract *)

OptNone == [panic |-> FALSE, some |-> FALSE, v |-> JNone]
OptSome(v) == [panic |-> FALSE, some |-> TRUE, v |-> v]
OptPanic == [panic |-> TRUE, some |-> FALSE, v |-> JNone]

\* the loop of extract: elem_list after every path expression was matched
RECURSIVE ElemList(_, _)
ElemList(v, exprs) ==
    IF exprs = <<>> THEN Ret(<<>>)
    ELSE LET first == extract_json(v, Head(exprs))
             rest == ElemList(v, Tail(exprs))
         IN  IF first.panic \/ rest.panic THEN RetPanic
             ELSE Ret(first.ret \o rest.ret)

\* unwrapping on elem_list.len() == 1 alone, whatever the number of expressions
extract_unwrap_any(v, exprs) ==
    LET elem_list == ElemList(v, exprs)
    IN  IF elem_list.panic THEN OptPanic
        ELSE IF elem_list.ret = <<>> THEN OptNone
        ELSE IF Len(elem_list.ret) = 1 THEN OptSome(elem_list.ret[1])
        ELSE OptSome(JArray(elem_list.ret))

\* no unwrapping at all: every non-empty elem_list comes back as an Array
extract_always_array(v, exprs) ==
    LET elem_list == ElemList(v, exprs)
    IN  IF elem_list.panic THEN OptPanic
        ELSE IF elem_list.ret = <<>> THEN OptNone
        ELSE OptSome(JArray(elem_list.ret))

extract(v, exprs) ==
    LET elem_list == ElemList(v, exprs)
    IN  IF elem_list.panic THEN OptPanic
        ELSE IF elem_list.ret = <<>> THEN OptNone
        ELSE IF Len(exprs) = 1 /\ Len(elem_list.ret) = 1 THEN OptSome(elem_list.ret[1])
        ELSE OptSome(JArray(elem_list.ret))

\* the lists of at most n expressions whose count and legs together are within b
RECURSIVE ExprListsWithin(_, _)
ExprListsWithin(n, b) ==
    IF n = 0 \/ b = 0 THEN {<<>>}
    ELSE {<<>>} \cup
         UNION {{<<e>> \o rest : rest \in ExprListsWithin(n - 1, b - 1 - Len(e))} :
                    e \in {x \in PathExprsUpTo(MaxLegs) : Len(x) <= b - 1}}

\* the expression lists checked: at most n expressions whose count and legs
\* together stay within MaxLegs + 1
ExprListsUpTo(n) == ExprListsWithin(n, MaxLegs + 1)

\* the orders in which the entries of a top-level Object can have been inserted
Orderings(s) ==
    {[i \in DOMAIN s |-> s[p[i]]] :
        p \in {q \in [DOMAIN s -> DOMAIN s] : \A a, b \in DOMAIN s : a # b => q[a] # q[b]}}
InsertOrders(v) == IF v.kind = "Object" THEN Orderings(v.map) ELSE {<<>>}
Built(v, ins) == IF v.kind = "Object" THEN JObject(BTreeFromInserts(ins)) ELSE v

-----------------------------------------------------------------------------
(* Specification of Json::extract: a value, built from some insertion order, and
   a list of path expressions; Extract is one call of extract *)

IdleUnquote == input = <<>> /\ unquoted = [ok |-> TRUE, s |-> <<>>]
IdleCalls == stack = <<>> /\ returned = <<>>
IdleSend ==
    /\ filters = <<>> /\ msg = 0 /\ idx = 0 /\ discard = FALSE /\ res = "Ok"
    /\ before_log = <<>> /\ after_log = <<>> /\ hit = {} /\ trans_log = <<>>
    /\ trans_res = "Ok" /\ sent = 0

Init ==
    /\ \E v \in ValuesUpTo(MaxNodes) : \E ins \in InsertOrders(v) :
          /\ inserts = ins
          /\ j = Built(v, ins)
    /\ path_expr_list \in ExprListsUpTo(MaxExprs)
    /\ result = OptNone
    /\ pc = "start"
    /\ IdleUnquote /\ IdleCalls /\ IdleSend

Extract ==
    /\ pc = "start"
    /\ result' = extract(j, path_expr_list)
    /\ pc' = "extracted"
    /\ UNCHANGED <<j, path_expr_list, inserts, unquoteVars, callVars, sendVars>>

Next == Extract

Spec == Init /\ [][Next]_vars

-----------------------------------------------------------------------------
(* Properties of extract and extract_json, stated without the code's own
   control flow: matches are described by the legs' meaning *)

Extracted == pc = "extracted"

\* the matches of expression e on value v
Matches(v, e) == extract_json(v, e).ret

IsWildcardLeg(l) ==
    \/ l.leg = "DoubleAsterisk"
    \/ l.leg = "Key" /\ l.key = PATH_EXPR_ASTERISK
    \/ l.leg = "Index" /\ l.i = PATH_EXPR_ARRAY_INDEX_ASTERISK

\* every match of every expression, in expression order
CombinedMatches ==
    Flatten([n \in DOMAIN path_expr_list |-> Matches(j, path_expr_list[n])])

\* the value as an Array: itself, or the one-element Array holding it
Wrapped(v) == IF v.kind = "Array" THEN v.elems ELSE <<v>>

\* the keys of a map as a set, and that set in ascending order
KeySet(m) == {m[n][1] : n \in DOMAIN m}
Ascending(ks) ==
    CHOOSE s \in [1..Cardinality(ks) -> ks] :
        \A a, b \in 1..Cardinality(ks) : a < b => StrLess(s[a], s[b])
ValueAt(m, k) == (CHOOSE kv \in Range(m) : kv[1] = k)[2]

\* v and its descendants in pre-order: Array elements in stored order, Object
\* values in ascending key order
RECURSIVE PreOrder(_)
PreOrder(v) ==
    LET kids == IF v.kind = "Array" THEN v.elems
                ELSE IF v.kind = "Object"
                THEN LET ks == Ascending(KeySet(v.map))
                     IN  [n \in DOMAIN ks |-> ValueAt(v.map, ks[n])]
                ELSE <<>>
    IN  <<v>> \o Flatten([n \in DOMAIN kids |-> PreOrder(kids[n])])

C2_NeverFails ==
    Extracted =>
        /\ ~result.panic
        /\ CombinedMatches = <<>> => result = OptNone
        /\ \A n \in DOMAIN path_expr_list :
              LET e == path_expr_list[n]
                  v == j
              IN  /\ ~extract_json(v, e).panic
                  /\ (e # <<>> /\ Head(e).leg = "Key" /\ v.kind # "Object")
                        => Matches(v, e) = <<>>
                  /\ (e # <<>> /\ Head(e).leg = "Key" /\ v.kind = "Object"
                        /\ Head(e).key # PATH_EXPR_ASTERISK
                        /\ Head(e).key \notin KeySet(v.map))
                        => Matches(v, e) = <<>>
                  /\ (e # <<>> /\ Head(e).leg = "Index"
                        /\ Head(e).i # PATH_EXPR_ARRAY_INDEX_ASTERISK
                        /\ ~(0 <= Head(e).i /\ Head(e).i < Len(Wrapped(v))))
                        => Matches(v, e) = <<>>

\* a negative literal index other than the wildcard marker, applied to a
\* non-empty Array, gave no match and extract returned None
C2_Witness ==
    /\ Extracted
    /\ Len(path_expr_list) = 1 /\ Len(path_expr_list[1]) = 1
    /\ path_expr_list[1][1].leg = "Index"
    /\ path_expr_list[1][1].i < 0
    /\ path_expr_list[1][1].i # PATH_EXPR_ARRAY_INDEX_ASTERISK
    /\ j.kind = "Array" /\ Len(j.elems) = 2
    /\ result = OptNone

\* C3: a wildcard Key leg on an Object concatenates the matches of the remaining
\* legs on the Object's values in ascending key order, whatever the order the
\* pairs were inserted in; get_sorted_keys is the key set in ascending order.
C3_WildcardKeyOrder ==
    (Extracted /\ j.kind = "Object") =>
        LET ks == Ascending(KeySet(j.map))
        IN  /\ get_sorted_keys(j.map) = ks
            /\ \A n \in DOMAIN path_expr_list :
                  LET e == path_expr_list[n]
                  IN  (e # <<>> /\ Head(e) = KeyLeg(PATH_EXPR_ASTERISK)) =>
                        /\ Matches(j, e) =
                              Flatten([k \in DOMAIN ks |->
                                          Matches(ValueAt(j.map, ks[k]), Tail(e))])
                        /\ \A ins \in Orderings(inserts) :
                              Matches(JObject(BTreeFromInserts(ins)), e) = Matches(j, e)

\* an Object whose pairs were inserted in descending key order was matched by a
\* wildcard key and gave its two values in ascending key order
C3_Witness ==
    /\ Extracted
    /\ j.kind = "Object" /\ Len(inserts) = 2
    /\ StrLess(inserts[2][1], inserts[1][1])
    /\ inserts[1][2] # inserts[2][2]
    /\ path_expr_list = << <<KeyLeg(PATH_EXPR_ASTERISK)>> >>
    /\ result = OptSome(JArray(<<inserts[2][2], inserts[1][2]>>))

\* C4: a DoubleAsterisk-headed expression gives the matches of the remaining
\* legs on the value, then those of the whole expression on each child in order;
\* that is the remaining legs matched on the value and all its descendants in
\* pre-order, duplicates kept.
C4_DoubleAsterisk ==
    Extracted =>
        \A n \in DOMAIN path_expr_list :
            LET e == path_expr_list[n]
            IN  (e # <<>> /\ Head(e) = DoubleAsterisk) =>
                  LET pre == PreOrder(j)
                      direct == IF j.kind = "Array" THEN j.elems
                                ELSE IF j.kind = "Object"
                                THEN [k \in DOMAIN Ascending(KeySet(j.map)) |->
                                         ValueAt(j.map, Ascending(KeySet(j.map))[k])]
                                ELSE <<>>
                  IN  /\ Matches(j, e) =
                            Matches(j, Tail(e))
                            \o Flatten([k \in DOMAIN direct |-> Matches(direct[k], e)])
                      /\ Matches(j, e) =
                            Flatten([k \in DOMAIN pre |-> Matches(pre[k], Tail(e))])

\* a DoubleAsterisk expression matched a grandchild of the value, two levels down
C4_Witness ==
    /\ Extracted
    /\ Len(path_expr_list) = 1 /\ Len(path_expr_list[1]) = 2
    /\ path_expr_list[1][1] = DoubleAsterisk
    /\ path_expr_list[1][2] = KeyLeg(KeyB)
    /\ j.kind = "Array" /\ Len(j.elems) = 1
    /\ j.elems[1].kind = "Object"
    /\ result.some /\ result.v \in Scalars

\* C5: an Index leg treats a non-Array as the one-element Array holding it:
\* index 0 and the wildcard give the matches of the remaining legs on the value,
\* a literal index of 1 or more gives none; on an Array a literal index below the
\* length gives the matches on that element, the wildcard on all elements in order.
C5_IndexLeg ==
    Extracted =>
        \A n \in DOMAIN path_expr_list :
            LET e == path_expr_list[n]
                v == j
            IN  (e # <<>> /\ Head(e).leg = "Index") =>
                  LET i == Head(e).i
                      wild == i = PATH_EXPR_ARRAY_INDEX_ASTERISK
                  IN  /\ (v.kind # "Array" /\ (i = 0 \/ wild))
                            => Matches(v, e) = Matches(v, Tail(e))
                      /\ (v.kind # "Array" /\ i >= 1) => Matches(v, e) = <<>>
                      /\ (v.kind = "Array" /\ 0 <= i /\ i < Len(v.elems))
                            => Matches(v, e) = Matches(v.elems[i + 1], Tail(e))
                      /\ (v.kind = "Array" /\ wild)
                            => Matches(v, e) =
                                 Flatten([k \in DOMAIN v.elems |->
                                             Matches(v.elems[k], Tail(e))])

\* index 0 applied to an Object returned the Object itself
C5_Witness ==
    /\ Extracted
    /\ j.kind = "Object" /\ j.map # <<>>
    /\ path_expr_list = << <<IndexLeg(0)>> >>
    /\ result = OptSome(j)

IsLiteralLeg(l) ==
    \/ l.leg = "Key" /\ l.key # PATH_EXPR_ASTERISK
    \/ l.leg = "Index" /\ l.i # PATH_EXPR_ARRAY_INDEX_ASTERISK

\* C9: an expression of literal Key and Index legs only has at most one match,
\* a sub-value of the input; extract with one such expression returns None or
\* that sub-value itself.
C9_LiteralPath ==
    Extracted =>
        \A n \in DOMAIN path_expr_list :
            LET e == path_expr_list[n]
            IN  (\A k \in DOMAIN e : IsLiteralLeg(e[k])) =>
                  /\ Len(Matches(j, e)) <= 1
                  /\ \A k \in DOMAIN Matches(j, e) : Matches(j, e)[k] \in SubValues(j)
                  /\ Len(path_expr_list) = 1 =>
                        \/ result = OptNone
                        \/ /\ Len(Matches(j, e)) = 1
                           /\ result = OptSome(Matches(j, e)[1])

\* a two-leg literal expression reached a value nested in the input
C9_Witness ==
    /\ Extracted
    /\ Len(path_expr_list) = 1 /\ Len(path_expr_list[1]) = 2
    /\ \A k \in 1..2 : IsLiteralLeg(path_expr_list[1][k])
    /\ result.some
    /\ result.v # j /\ result.v \in SubValues(j)

-----------------------------------------------------------------------------
(* unquote_string *)

ESCAPED_UNICODE_BYTES_SIZE == 4

\* the characters the match arms name, as scalar values
ChBackslash == 92
ChQuote == 34
ChB == 98
ChF == 102
ChN == 110
ChR == 114
ChT == 116
ChU == 117
ChPlus == 43

StrOk(str) == [ok |-> TRUE, s |-> str]
StrErr == [ok |-> FALSE, s |-> <<>>]
CharOk(c) == [ok |-> TRUE, c |-> c]
CharErr == [ok |-> FALSE, c |-> 0]

\* char::to_digit(16): '0'..'9', 'a'..'f', 'A'..'F'; 16 stands for None
ToDigit16(c) ==
    IF 48 <= c /\ c <= 57 THEN c - 48
    ELSE IF 97 <= c /\ c <= 102 THEN c - 97 + 10
    ELSE IF 65 <= c /\ c <= 70 THEN c - 65 + 10
    ELSE 16

\* u32::from_str_radix(s, 16): an optional leading '+', then at least one digit,
\* every character a hex digit, the value within 32 bits
RECURSIVE DigitsValue(_, _)
DigitsValue(digits, acc) ==
    IF digits = <<>> THEN CharOk(acc)
    ELSE IF ToDigit16(Head(digits)) = 16 THEN CharErr
    ELSE IF acc >= 2 ^ 28 THEN CharErr   \* acc * 16 + digit would pass 2^32 - 1
    ELSE DigitsValue(Tail(digits), acc * 16 + ToDigit16(Head(digits)))

from_str_radix16(str) ==
    IF str = <<>> THEN CharErr
    ELSE LET digits == IF Head(str) = ChPlus THEN Tail(str) ELSE str
         IN  IF digits = <<>> THEN CharErr ELSE DigitsValue(digits, 0)

\* char::from_u32: None for a surrogate and above 0x10FFFF
from_u32(u) ==
    IF (55296 <= u /\ u <= 57343) \/ u > 1114111 THEN CharErr ELSE CharOk(u)

decode_escaped_unicode(str) ==
    LET u == from_str_radix16(str)
    IN  IF ~u.ok THEN CharErr ELSE from_u32(u.c)

\* an escape table with the conventional tab for \t
EscapedChar_tab(c) ==
    IF c = ChQuote THEN ChQuote
    ELSE IF c = ChB THEN 8
    ELSE IF c = ChF THEN 12
    ELSE IF c = ChN THEN 10
    ELSE IF c = ChR THEN 13
    ELSE IF c = ChT THEN 9
    ELSE IF c = ChBackslash THEN ChBackslash
    ELSE c

\* the arms of `match c` other than 'u': the character pushed to ret
EscapedChar(c) ==
    IF c = ChQuote THEN ChQuote
    ELSE IF c = ChB THEN 8
    ELSE IF c = ChF THEN 12
    ELSE IF c = ChN THEN 10
    ELSE IF c = ChR THEN 13
    ELSE IF c = ChT THEN 11
    ELSE IF c = ChBackslash THEN ChBackslash
    ELSE c

\* the while loop: chars is what the iterator has left, ret the text so far
RECURSIVE UnquoteLoop(_, _)
UnquoteLoop(chars, ret) ==
    IF chars = <<>> THEN StrOk(ret)
    ELSE IF Head(chars) = ChBackslash
    THEN IF Tail(chars) = <<>> THEN StrErr
         ELSE LET c == chars[2]
                  after == SubSeq(chars, 3, Len(chars))
              IN  IF c = ChU
                  THEN IF Len(after) < ESCAPED_UNICODE_BYTES_SIZE THEN StrErr
                       ELSE LET unicode == SubSeq(after, 1, ESCAPED_UNICODE_BYTES_SIZE)
                                utf8 == decode_escaped_unicode(unicode)
                            IN  IF ~utf8.ok THEN StrErr
                                ELSE UnquoteLoop(
                                        SubSeq(after, ESCAPED_UNICODE_BYTES_SIZE + 1,
                                               Len(after)),
                                        Append(ret, utf8.c))
                  ELSE UnquoteLoop(after, Append(ret, EscapedChar(c)))
    ELSE UnquoteLoop(Tail(chars), Append(ret, Head(chars)))

unquote_string(str) == UnquoteLoop(str, <<>>)

\* the texts checked: every text of up to n characters over the escape letters
\* and two plain characters, and every text of up to m characters over what a
\* \u escape is made of
FullAlphabet == {ChBackslash, ChQuote, ChB, ChF, ChN, ChR, ChT, ChU, 91, 48}
EscAlphabet == {ChBackslash, ChU, 48, 100, ChPlus, 103}
InputsUpTo(n, m) == SeqsUpTo(FullAlphabet, n) \cup SeqsUpTo(EscAlphabet, m)

IdleExtract ==
    j = JArray(<<>>) /\ path_expr_list = <<>> /\ inserts = <<>> /\ result = OptNone

InitUnquote ==
    /\ input \in InputsUpTo(MaxStrLen, MaxEscLen)
    /\ unquoted = StrOk(<<>>)
    /\ pc = "start"
    /\ IdleExtract /\ IdleCalls /\ IdleSend

Unquote ==
    /\ pc = "start"
    /\ unquoted' = unquote_string(input)
    /\ pc' = "unquoted"
    /\ UNCHANGED <<input, extractVars, callVars, sendVars>>

NextUnquote == Unquote

SpecUnquote == InitUnquote /\ [][NextUnquote]_vars

Unquoted == pc = "unquoted"

\* the result of decoding `first` and then the rest of the text
Then(first, rest) == IF rest.ok THEN StrOk(<<first>> \o rest.s) ELSE StrErr

\* C6: decoding goes left to right by the fixed table: \" \b \f \n \r \t \\ give
\* the quote, 0x08, 0x0C, 0x0A, 0x0D, 0x0B and the backslash, a backslash before
\* any other character but u gives that character, every other character is
\* copied; a text without backslash decodes to itself.
C6_EscapeTable ==
    Unquoted =>
        /\ (\A n \in DOMAIN input : input[n] # 92) => unquoted = StrOk(input)
        /\ (input # <<>> /\ input[1] # 92)
              => unquoted = Then(input[1], unquote_string(Tail(input)))
        /\ (Len(input) >= 2 /\ input[1] = 92 /\ input[2] # 117)
              => LET c == input[2]
                     decoded == CASE c = 34 -> 34
                                  [] c = 98 -> 8
                                  [] c = 102 -> 12
                                  [] c = 110 -> 10
                                  [] c = 114 -> 13
                                  [] c = 116 -> 11
                                  [] c = 92 -> 92
                                  [] OTHER -> c
                 IN  unquoted = Then(decoded, unquote_string(SubSeq(input, 3, Len(input))))

\* the text \t[ was decoded to 0x0B followed by [
C6_Witness ==
    /\ Unquoted
    /\ input = <<92, 116, 91>>
    /\ unquoted = StrOk(<<11, 91>>)

IsHexDigit(c) == (48 <= c /\ c <= 57) \/ (97 <= c /\ c <= 102) \/ (65 <= c /\ c <= 70)
HexDigit(c) == IF c <= 57 THEN c - 48 ELSE IF c >= 97 THEN c - 87 ELSE c - 55
Hex4(str) ==
    ((HexDigit(str[1]) * 16 + HexDigit(str[2])) * 16 + HexDigit(str[3])) * 16
    + HexDigit(str[4])

\* the failures the scan can meet: a backslash ending the text, a \u with fewer
\* than 4 characters after it, a \u whose 4 characters are not all hex digits,
\* a \u whose 4 hex digits name a surrogate
RECURSIVE ScanFails(_)
ScanFails(str) ==
    IF str = <<>> THEN FALSE
    ELSE IF Head(str) # 92 THEN ScanFails(Tail(str))
    ELSE IF Len(str) = 1 THEN TRUE
    ELSE IF str[2] # 117 THEN ScanFails(SubSeq(str, 3, Len(str)))
    ELSE IF Len(str) < 6 THEN TRUE
    ELSE IF \E n \in 3..6 : ~IsHexDigit(str[n]) THEN TRUE
    ELSE IF 55296 <= Hex4(SubSeq(str, 3, 6)) /\ Hex4(SubSeq(str, 3, 6)) <= 57343 THEN TRUE
    ELSE ScanFails(SubSeq(str, 7, Len(str)))

\* C7: unquote_string fails, with no decoded text, exactly when the scan meets a
\* trailing backslash, a \u with fewer than 4 characters after it, a \u whose 4
\* characters are not all hex digits (a leading '+' is none), or a \u naming a
\* surrogate; a \u with 4 hex digits of a valid scalar decodes to that character.
C7_FailsExactlyOnBadEscape ==
    Unquoted =>
        /\ ~unquoted.ok <=> ScanFails(input)
        /\ ~unquoted.ok => unquoted.s = <<>>
        /\ (Len(input) >= 6 /\ input[1] = 92 /\ input[2] = 117
              /\ (\A n \in 3..6 : IsHexDigit(input[n]))
              /\ ~(55296 <= Hex4(SubSeq(input, 3, 6)) /\ Hex4(SubSeq(input, 3, 6)) <= 57343))
              => unquoted = Then(Hex4(SubSeq(input, 3, 6)),
                                 unquote_string(SubSeq(input, 7, Len(input))))

-----------------------------------------------------------------------------
(* extract_json call by call: the stack holds one frame per call in progress,
   with the recursive calls it has still to make and the ret it has built *)

\* no recursion of the checked inputs goes deeper than one frame per leg and per
\* level of the value; the guard of CallStep stops a deeper one
MaxStack == MaxNodes + MaxLegs + 2

\* the entry of extract_json: the base case returns the value, any other call
\* starts with an empty ret and the calls of its match arm to make
Frame(v, path_expr) ==
    IF path_expr = <<>>
    THEN [j |-> v, legs |-> path_expr, calls |-> <<>>, ret |-> <<v>>]
    ELSE [j |-> v, legs |-> path_expr, calls |-> LegCalls(v, path_expr).calls,
          ret |-> <<>>]

\* one leg of each kind of match arm: what a leg's literal is changes which
\* child is taken, not how the calls nest
CallLegs ==
    {KeyLeg(KeyB), KeyLeg(PATH_EXPR_ASTERISK), IndexLeg(0),
     IndexLeg(PATH_EXPR_ARRAY_INDEX_ASTERISK), DoubleAsterisk}

InitCalls ==
    /\ \E v \in ValuesUpTo(MaxNodes), e \in SeqsUpTo(CallLegs, MaxLegs) :
          stack = <<Frame(v, e)>>
    /\ returned = <<>>
    /\ pc = "running"
    /\ IdleExtract /\ IdleUnquote /\ IdleSend

Top == stack[Len(stack)]

\* the call in progress makes its next recursive call
CallStep ==
    /\ pc = "running"
    /\ Top.calls # <<>>
    /\ Len(stack) < MaxStack
    /\ stack' = Append([stack EXCEPT ![Len(stack)].calls = Tail(@)],
                       Frame(Head(Top.calls).j, Head(Top.calls).legs))
    /\ UNCHANGED <<returned, pc, extractVars, unquoteVars, sendVars>>

\* a recursive call returns: the caller appends its ret
ReturnStep ==
    /\ pc = "running"
    /\ Top.calls = <<>>
    /\ Len(stack) > 1
    /\ stack' = [SubSeq(stack, 1, Len(stack) - 1)
                    EXCEPT ![Len(stack) - 1].ret = @ \o Top.ret]
    /\ UNCHANGED <<returned, pc, extractVars, unquoteVars, sendVars>>

\* the outermost call returns ret
Finish ==
    /\ pc = "running"
    /\ Top.calls = <<>>
    /\ Len(stack) = 1
    /\ returned' = Top.ret
    /\ pc' = "done"
    /\ UNCHANGED <<stack, extractVars, unquoteVars, sendVars>>

NextCalls == CallStep \/ ReturnStep \/ Finish

\* a call runs synchronously to completion: no step of it is postponed for ever
SpecCalls == InitCalls /\ [][NextCalls]_vars /\ WF_vars(NextCalls)

StrictSubValue(c, v) == c # v /\ c \in SubValues(v)

\* every frame but the outermost has a strictly shorter leg list than its caller,
\* or the caller's DoubleAsterisk-headed list and a strict sub-value of its subject
CallsDescend ==
    \A k \in 2..Len(stack) :
        LET caller == stack[k - 1]
            callee == stack[k]
        IN  \/ Len(callee.legs) < Len(caller.legs)
            \/ /\ callee.legs = caller.legs
               /\ Head(caller.legs) = DoubleAsterisk
               /\ StrictSubValue(callee.j, caller.j)

\* C8: extract_json terminates on every finite value and leg list: every
\* recursive call has a strictly shorter leg list, or the same leg list and a
\* strict sub-value as subject, and the outermost call returns, with the matches.
C8_Terminates ==
    /\ [](CallsDescend /\ Len(stack) < MaxStack)
    /\ <>(pc = "done" /\ returned = Matches(stack[1].j, stack[1].legs))

\* two DoubleAsterisk legs in a row: a call three frames deep kept the whole
\* expression for a grandchild of the subject
C8_Witness ==
    /\ pc = "running"
    /\ Len(stack) >= 3
    /\ stack[1].legs = <<DoubleAsterisk, DoubleAsterisk>>
    /\ stack[3].legs = stack[1].legs
    /\ StrictSubValue(stack[3].j, stack[2].j)
    /\ StrictSubValue(stack[2].j, stack[1].j)

-----------------------------------------------------------------------------
(* SimulateTransport: a chain of filters around the underlying transport *)

DropPacket(rate) == [kind |-> "DropPacket", rate |-> rate]
Delay(duration) == [kind |-> "Delay", duration |-> duration]
OutOfOrder == [kind |-> "OutOfOrder"]

Strategies == {DropPacket(0), DropPacket(50), DropPacket(100), Delay(10), OutOfOrder}

FilterDropPacket(rate) == [filter |-> "FilterDropPacket", rate |-> rate]
FilterDelay(duration) == [filter |-> "FilterDelay", duration |-> duration]
FilterOutOfOrder == [filter |-> "FilterOutOfOrder"]

\* SimulateTransport::new: one filter per strategy, in the order given
new(strategy) ==
    [n \in DOMAIN strategy |->
        IF strategy[n].kind = "DropPacket" THEN FilterDropPacket(strategy[n].rate)
        ELSE IF strategy[n].kind = "Delay" THEN FilterDelay(strategy[n].duration)
        ELSE FilterOutOfOrder]

\* values of rand::random::<u32>() % 100u32: both ends of the range and both
\* sides of the rate 50
RandomMod100 == {0, 49, 50, 99}

\* what the underlying transport's send can return
TransResults == {"Ok", "Err"}

InitSend ==
    /\ \E strategy \in SeqsUpTo(Strategies, MaxFilters) : filters = new(strategy)
    /\ msg = 0 /\ idx = 0 /\ discard = FALSE /\ res = "Ok"
    /\ before_log = <<>> /\ after_log = <<>> /\ hit = {} /\ trans_log = <<>>
    /\ trans_res = "Ok" /\ sent = 0
    /\ pc = "idle"
    /\ IdleExtract /\ IdleUnquote /\ IdleCalls

\* send is called with a new message: let mut discard = false
SendStart ==
    /\ pc \in {"idle", "returned"}
    /\ sent < MaxMsgs
    /\ sent' = sent + 1
    /\ msg' = sent + 1
    /\ discard' = FALSE
    /\ idx' = 1
    /\ before_log' = <<>>
    /\ after_log' = <<>>
    /\ pc' = "before"
    /\ UNCHANGED <<filters, res, hit, trans_log, trans_res,
                   extractVars, unquoteVars, callVars>>

\* the outcome b of a before hook: if strategy.before(&msg) { discard = true }
BeforeReturns(b) ==
    /\ discard' = (discard \/ b)
    /\ hit' = IF b THEN hit \cup {msg} ELSE hit
    /\ before_log' = Append(before_log, idx)
    /\ idx' = idx + 1
    /\ UNCHANGED <<filters, msg, res, after_log, trans_log, trans_res, sent, pc,
                   extractVars, unquoteVars, callVars>>

\* a loop that stops at the first before hook returning true
BeforeDropPacket_break ==
    /\ pc = "before"
    /\ idx <= Len(filters)
    /\ filters[idx].filter = "FilterDropPacket"
    /\ \E r \in RandomMod100 :
          /\ discard' = (discard \/ r < filters[idx].rate)
          /\ hit' = IF r < filters[idx].rate THEN hit \cup {msg} ELSE hit
          /\ before_log' = Append(before_log, idx)
          /\ idx' = IF r < filters[idx].rate THEN Len(filters) + 1 ELSE idx + 1
    /\ UNCHANGED <<filters, msg, res, after_log, trans_log, trans_res, sent, pc,
                   extractVars, unquoteVars, callVars>>

\* FilterDropPacket::before in the first loop of send
BeforeDropPacket ==
    /\ pc = "before"
    /\ idx <= Len(filters)
    /\ filters[idx].filter = "FilterDropPacket"
    /\ \E r \in RandomMod100 : BeforeReturns(r < filters[idx].rate)

\* FilterDelay::before in the first loop of send: sleeps and returns false
BeforeDelay ==
    /\ pc = "before"
    /\ idx <= Len(filters)
    /\ filters[idx].filter = "FilterDelay"
    /\ BeforeReturns(FALSE)

\* FilterOutOfOrder::before: unimplemented!() panics and unwinds send
BeforeOutOfOrder ==
    /\ pc = "before"
    /\ idx <= Len(filters)
    /\ filters[idx].filter = "FilterOutOfOrder"
    /\ pc' = "panicked"
    /\ UNCHANGED <<sendVars, extractVars, unquoteVars, callVars>>

\* let mut res = Ok(()); the message was discarded: the transport is not called
SkipTrans ==
    /\ pc = "before"
    /\ idx > Len(filters)
    /\ discard
    /\ res' = "Ok"
    /\ idx' = Len(filters)
    /\ pc' = "after"
    /\ UNCHANGED <<filters, msg, discard, before_log, after_log, hit, trans_log,
                   trans_res, sent, extractVars, unquoteVars, callVars>>

\* res = self.trans.read().unwrap().send(msg)
TransSend ==
    /\ pc = "before"
    /\ idx > Len(filters)
    /\ ~discard
    /\ \E r \in TransResults :
          /\ res' = r
          /\ trans_res' = r
    /\ trans_log' = Append(trans_log, msg)
    /\ idx' = Len(filters)
    /\ pc' = "after"
    /\ UNCHANGED <<filters, msg, discard, before_log, after_log, hit, sent,
                   extractVars, unquoteVars, callVars>>

\* Filter::after of FilterDropPacket and FilterDelay returns its argument;
\* FilterOutOfOrder::after is unimplemented!()
AfterResult(f, x) == IF f.filter = "FilterOutOfOrder" THEN "panic" ELSE x

\* the second loop of send: res = strategy.after(res), over filters.iter().rev()
After ==
    /\ pc = "after"
    /\ idx >= 1
    /\ IF AfterResult(filters[idx], res) = "panic"
       THEN /\ pc' = "panicked"
            /\ UNCHANGED <<res, after_log, idx>>
       ELSE /\ res' = AfterResult(filters[idx], res)
            /\ after_log' = Append(after_log, idx)
            /\ idx' = idx - 1
            /\ pc' = pc
    /\ UNCHANGED <<filters, msg, discard, before_log, hit, trans_log, trans_res, sent,
                   extractVars, unquoteVars, callVars>>

\* send returns res
SendReturn ==
    /\ pc = "after"
    /\ idx = 0
    /\ pc' = "returned"
    /\ UNCHANGED <<sendVars, extractVars, unquoteVars, callVars>>

NextSend ==
    \/ SendStart
    \/ BeforeDropPacket
    \/ BeforeDelay
    \/ BeforeOutOfOrder
    \/ SkipTrans
    \/ TransSend
    \/ After
    \/ SendReturn

SpecSend == InitSend /\ [][NextSend]_vars

Reversed(s) == [n \in DOMAIN s |-> s[Len(s) + 1 - n]]
Indices == [n \in DOMAIN filters |-> n]

====
